---- MODULE Spec2Model ----
(***************************************************************************)
(* A model of the protocol engine of rust-imap (src/src/client.rs):        *)
(* Connection (tag counter, line reader, response reader), Client (login,  *)
(* authenticate), Session (commands, append, idle) and IdleHandle.         *)
(*                                                                         *)
(* The transport delivers "chunks": what one read_until(LF) returns.  A    *)
(* chunk is described by what imap_proto::parse_response makes of it, by   *)
(* the number of bytes it holds and by the literal it announces.  Every    *)
(* action runs the code of a handler from one blocking read to the next.   *)
(***************************************************************************)
EXTENDS Integers, Sequences, FiniteSets, TLC

\* ------------------------------------------------------------------ bounds
\* Commands issued on one connection.
MaxTag == 3
\* Lines accumulated by one read_response_onto before the environment ends it.
MaxData == 3
\* Continuation lines answered in one authenticate.
MaxCont == 2
\* Responses handed to the unsolicited-response channel of one Session.
MaxQueue == 5
\* Characters of a string given to quote!.
MaxStr == 4
\* Bytes of a line given to readline.
MaxLine == 3

\* const INITIAL_TAG: u32 = 0
INITIAL_TAG == 0

\* ------------------------------------------------------------------ strings
\* Argument strings are sequences of one-character strings.
LFc == "\n"
CRc == "\r"
DQc == "\""
BSc == "\\"

Names ==
    { <<"a">>, <<"a", LFc>>, <<CRc, "a">>, <<CRc, LFc>>, <<DQc, BSc>> }

\* Names given to the methods that do not validate
QuotedNames == { <<"a">>, <<"a", LFc>>, <<CRc, LFc>>, <<DQc, BSc>> }

Contains(s, c) == \E i \in 1..Len(s) : s[i] = c

RECURSIVE ReplaceChar(_, _, _)
\* str::replace of a one-character pattern
ReplaceChar(s, c, by) ==
    IF s = <<>> THEN <<>>
    ELSE (IF Head(s) = c THEN by ELSE <<Head(s)>>) \o ReplaceChar(Tail(s), c, by)

QuoteDquoteFirst(s) ==
    <<DQc>> \o ReplaceChar(ReplaceChar(s, DQc, <<BSc, DQc>>), BSc, <<BSc, BSc>>) \o <<DQc>>

\* quote!: format!("\"{}\"", x.replace(r"\", r"\\").replace("\"", "\\\""))
Quote(s) ==
    <<DQc>> \o ReplaceChar(ReplaceChar(s, BSc, <<BSc, BSc>>), DQc, <<BSc, DQc>>) \o <<DQc>>

ValidateStrNoCR(value) ==
    LET quoted == Quote(value) IN
    IF Contains(quoted, LFc) THEN [err |-> TRUE, ch |-> LFc, q |-> <<>>]
    ELSE [err |-> FALSE, ch |-> "", q |-> quoted]

\* validate_str
ValidateStr(value) ==
    LET quoted == Quote(value) IN
    IF Contains(quoted, LFc) THEN [err |-> TRUE, ch |-> LFc, q |-> <<>>]
    ELSE IF Contains(quoted, CRc) THEN [err |-> TRUE, ch |-> CRc, q |-> <<>>]
    ELSE [err |-> FALSE, ch |-> "", q |-> quoted]

\* ------------------------------------------------------------------ chunks
\* form: tagged    a complete line "<tag> <status> [text]CRLF"
\*       untagged  a complete line "* ...CRLF"; lit > 0: it ends in "{lit}CRLF"
\*       cont      a line that starts with "+"; enc tells how it ends / is encoded
\*       junk      a complete line parse_response rejects
\*       tail      len - 1 arbitrary bytes followed by the closing ")CRLF" of a
\*                 response that held a literal; on its own it is junk
\*       partial   bytes without LF: the stream ended inside a line
\*       pcont     as partial, starting with "+"
\* len : abstract byte count of the chunk
Chunk(f, tg, s, x, l, n, e) ==
    [form |-> f, tag |-> tg, st |-> s, txt |-> x, lit |-> l, len |-> n, enc |-> e]

Tagged(tg, s, x) == Chunk("tagged", tg, s, x, 0, 2, "ok")
Untagged(x) == Chunk("untagged", 0, "", x, 0, 2, "ok")
LitHeader(n) == Chunk("untagged", 0, "", "lit", n, 2, "ok")
Cont(x, e) == Chunk("cont", 0, "", x, 0, 2, e)
Junk == Chunk("junk", 0, "", "", 0, 2, "ok")
TailChunk(n) == Chunk("tail", 0, "", "", 0, n, "ok")
Partial == Chunk("partial", 0, "", "", 0, 1, "ok")
PartialCont == Chunk("pcont", 0, "", "", 0, 1, "ok")

\* line.starts_with(b"+")
StartsWithPlus(c) == c.form \in {"cont", "pcont"}

\* A tag other than t
StaleTag(t) == IF t = 0 THEN 1 ELSE t - 1

Terminators(t) ==
    { Tagged(t, "OK", "t"), Tagged(t, "NO", "t"), Tagged(t, "NO", ""),
      Tagged(t, "BAD", "t"), Tagged(t, "BAD", ""), Tagged(t, "BYE", "t"),
      Tagged(StaleTag(t), "OK", "t"), Tagged(StaleTag(t), "NO", "t") }

\* Transport events that are not data
Events == { "eof", "ioerr", "timeout" }

\* ------------------------------------------------------------------ classifier
PR(k, tg, s, x) == [k |-> k, tag |-> tg, st |-> s, txt |-> x]

RECURSIVE LitScan(_, _)
\* The bytes after a "{n}" header: n payload bytes, then the rest of the line.
\* need: payload bytes still missing before rest[1].
LitScan(rest, need) ==
    IF rest = <<>> THEN "Incomplete"
    ELSE IF Head(rest).len <= need THEN LitScan(Tail(rest), need - Head(rest).len)
    ELSE IF Head(rest).form = "tail" /\ Head(rest).len - need = 1 THEN "Other"
    ELSE "Error"

\* imap_proto::parse_response on data[line_start..]: the first response only.
\* k: Done | Other (any other response) | Incomplete | Error
ParseResponse(cs) ==
    LET h == cs[1] IN
    CASE h.form = "tagged" -> PR("Done", h.tag, h.st, h.txt)
      [] h.form = "untagged" /\ h.lit = 0 -> PR("Other", 0, "", "")
      [] h.form = "untagged" /\ h.lit > 0 -> PR(LitScan(Tail(cs), h.lit), 0, "", "")
      [] h.form = "cont" /\ h.enc = "ok" -> PR("Other", 0, "", "")
      [] h.form \in {"partial", "pcont"} -> PR("Incomplete", 0, "", "")
      [] OTHER -> PR("Error", 0, "", "")

\* ------------------------------------------------------------------ state
VARIABLES
    mode,      \* who owns the Connection: "client" | "session" | "idling" | "gone"
    tag,       \* Connection.tag
    sent,      \* the tags of the command lines handed to the transport, in order
    out,       \* the lines handed to the transport since the last command call
    wbroken,   \* the transport has failed a write
    pc,        \* the blocking read the running call is at, or "ready" | "crashed"
    op,        \* the public call that is running
    ret,       \* what the running read returns into
    data,      \* read_response_onto: data
    cfrom,     \* read_response_onto: continue_from (0: None, else 1-based index)
    result,    \* what the last call returned to its caller
    pend,      \* the result a method holds while its IdleHandle is dropped
    done,      \* IdleHandle.done
    rtimeout,  \* the transport has a read timeout set
    andthen,   \* what the running Session method does with the response it reads:
               \* "drop" (.map(|_| ())) | "raw" (returns it) | the parse function
               \* of its .and_then: "mailbox" | "fetches" | "names" |
               \* "capabilities" | "ids" | ""
    unsolicited_responses,  \* Session.unsolicited_responses: sent and not yet received
    call,      \* the arguments of the call just made and the command it rendered
    rx,        \* what the transport delivered to the running call (for a call on an
               \* IdleHandle: since idle() was called), and where
    srvok,     \* every delivery so far is one a conforming server makes
    answered,  \* tagged completions delivered in order by a conforming server
    closed,    \* the transport reported end-of-stream
    debug      \* Connection.debug

vars == <<mode, tag, sent, out, wbroken, pc, op, ret, data, cfrom, result, pend, done,
          rtimeout, andthen, unsolicited_responses, call, rx, srvok, answered, closed,
          debug>>

\* The control state as one value, and its assignment.
St ==
    [mode |-> mode, tag |-> tag, sent |-> sent, out |-> out, wbroken |-> wbroken,
     pc |-> pc, op |-> op, ret |-> ret,
     data |-> data, cfrom |-> cfrom, result |-> result, pend |-> pend,
     done |-> done, rtimeout |-> rtimeout,
     andthen |-> andthen, unsolicited_responses |-> unsolicited_responses]

Set(n) ==
    /\ mode' = n.mode /\ tag' = n.tag /\ sent' = n.sent /\ out' = n.out
    /\ wbroken' = n.wbroken /\ pc' = n.pc /\ op' = n.op
    /\ ret' = n.ret /\ data' = n.data /\ cfrom' = n.cfrom /\ result' = n.result
    /\ pend' = n.pend /\ done' = n.done /\ rtimeout' = n.rtimeout
    /\ andthen' = n.andthen /\ unsolicited_responses' = n.unsolicited_responses
    /\ debug' = debug

\* Option<u32>
None == <<>>
Some(n) == <<n>>

\* Mailbox::default()
DefaultMailbox ==
    [flags |-> <<>>, exists |-> 0, recent |-> 0, unseen |-> None,
     permanent_flags |-> <<>>, uid_next |-> None, uid_validity |-> None]

\* The typed value a parsing method returns: Vec<Fetch>, Vec<Name>, the
\* capabilities or a Mailbox
Val(k, items, mb) == [kind |-> k, items |-> items, mb |-> mb]
NoVal == Val("none", <<>>, DefaultMailbox)

\* Result<_, Error> as seen by the caller. data: the bytes an Ok(Vec<u8>) or a
\* ParseError::Invalid holds; val: the typed value of an Ok
Res(o, k, x, d, c) ==
    [op |-> o, kind |-> k, text |-> x, data |-> d, ch |-> c, val |-> NoVal]
NoResult == Res("", "none", "", <<>>, "")

\* One line handed to the transport. kind: cmd | done | auth | lit
Line(k, t, v, w) == [kind |-> k, tag |-> t, v |-> v, ok |-> w]

NoCall == [verb |-> "", a1 |-> <<>>, a2 |-> <<>>, line |-> <<>>]

\* A transport event as an entry of rx
Ev(f) == Chunk(f, 0, "", "", 0, 0, "ok")
IsEvent(c) == c.form \in Events

\* ------------------------------------------------------------------ Connection
\* The call returns r; the Connection now belongs to m.
Return(s, m, r) ==
    [s EXCEPT !.mode = m, !.pc = "ready", !.op = "", !.ret = "", !.data = <<>>,
              !.cfrom = 0, !.result = r, !.pend = NoResult, !.andthen = ""]

\* panic!: assert_eq!, unwrap() on Err, unreachable!()
Crash(s, why) ==
    [s EXCEPT !.pc = "crashed", !.result = Res(s.op, "panic", why, <<>>, "")]

ReadErrorIo(s, e) == Res(s.op, "Io", e.form, <<>>, "")

\* readline: Err(ConnectionLost) on a read of zero bytes, Err(Io) on a read error
ReadError(s, e) ==
    IF e.form = "eof" THEN Res(s.op, "ConnectionLost", "", <<>>, "")
    ELSE Res(s.op, "Io", e.form, <<>>, "")

\* write_line: the line, CRLF, flush; any of them may fail, and once the
\* transport has failed a write it fails every later one
WriteLine(s, k, t, v) ==
    { [st |-> [s EXCEPT !.out = Append(@, Line(k, t, v, w)),
                        !.sent = IF k = "cmd" THEN Append(@, t) ELSE @,
                        !.wbroken = ~w],
       ok |-> w]
      : w \in IF s.wbroken THEN { FALSE } ELSE BOOLEAN }

IoWrite(s) == Res(s.op, "Io", "write", <<>>, "")

CreateCommandSameTag(s) == s

\* create_command: self.tag += 1
CreateCommand(s) == [s EXCEPT !.tag = @ + 1]

\* run_command: create_command, then write_line
RunCommand(s, v) ==
    LET s1 == CreateCommand(s) IN WriteLine(s1, "cmd", s1.tag, v)

\* ------------------------------------------------------------------ IdleHandle
TerminateWriteTagged(s) == RunCommand(s, "DONE")

\* terminate: self.session.write_line(b"DONE")
TerminateWrite(s) == WriteLine(s, "done", 0, "DONE")

DropHandleAlways(s, p) ==
    { IF w.ok
      THEN [w.st EXCEPT !.pc = "rr", !.ret = "term_drop", !.data = <<>>,
                        !.cfrom = 0, !.pend = p, !.done = TRUE]
      ELSE Return([w.st EXCEPT !.done = FALSE], "session", p)
      : w \in TerminateWrite(s) }

\* Drop for IdleHandle, after its method produced p: self.terminate().is_ok()
\* terminate: if !done { done = true; write_line(b"DONE")?; read_response() }
DropHandle(s, p) ==
    IF s.done
    THEN { Return([s EXCEPT !.done = FALSE], "session", p) }
    ELSE { IF w.ok
           THEN [w.st EXCEPT !.pc = "rr", !.ret = "term_drop", !.data = <<>>,
                             !.cfrom = 0, !.pend = p, !.done = TRUE]
           ELSE Return([w.st EXCEPT !.done = FALSE], "session", p)
           : w \in TerminateWrite(s) }

\* wait_inner returned r. wait_timeout then calls set_read_timeout(None).is_ok(),
\* whose failure is ignored; then self is dropped.
WaitInnerReturn(s, r) ==
    LET after == IF s.op = "wait_timeout"
                 THEN { [s EXCEPT !.rtimeout = FALSE], s }
                 ELSE { s }
    IN UNION { DropHandle(a, r) : a \in after }

InitFailFatal(s, e) == { Crash(s, "unreachable") }

\* init returned Err(e): IdleHandle::new drops the handle it built (done is
\* false); in wait_inner the `?` returns e from wait_inner (done is true).
InitFail(s, e) ==
    IF s.ret \in {"new", "init_new"} THEN DropHandle(s, e) ELSE WaitInnerReturn(s, e)

\* init: self.session.run_command("IDLE")?, then the readline of IdleInitRead.
\* from: "new" (IdleHandle::new) | "refresh" (wait_inner)
InitStart(s, from) ==
    UNION { IF w.ok
            THEN { [w.st EXCEPT !.pc = "idleinit", !.ret = from, !.data = <<>>, !.cfrom = 0] }
            ELSE InitFail([w.st EXCEPT !.ret = from], IoWrite(s))
            : w \in RunCommand(s, "IDLE") }

\* ------------------------------------------------------------------ read_response_onto
LoginOwnerLost(r) == IF r.kind = "Ok" THEN "session" ELSE "gone"

\* login, do_auth_handshake: Ok(Session::new(self.conn)), or through
\* ok_or_unauth_client_err! Err((e, self))
LoginOwner(r) == IF r.kind = "Ok" THEN "session" ELSE "client"

\* Client::new(stream): the Connection it builds starts at INITIAL_TAG
ClientNew(s) == [s EXCEPT !.tag = INITIAL_TAG]

\* Client::secure after run_command_and_check_ok("STARTTLS") returned r: `?`
\* gives the error up, the Client being consumed; else
\* TlsConnector::connect(.., self.conn.stream.into_inner()?).map(Client::new)
\* .map_err(Error::TlsHandshake). write_line has flushed, so into_inner has
\* nothing to write and does not fail.
SecureUpgrade(s, r) ==
    IF r.kind # "Ok" THEN { Return(s, "gone", r) }
    ELSE { Return(ClientNew(s), "client", Res(s.op, "Ok", "", <<>>, "")),
           Return(s, "gone", Res(s.op, "TlsHandshake", "", <<>>, "")) }

\* ------------------------------------------------------------------ parse.rs
\* imap_proto::Response, as far as the parse functions look at it.
\* t: fetch | exists | recent | flags | list | capabilities | pflags | unseen |
\*    uidvalidity | uidnext (the last four: Data with status Ok and that response
\*    code) | data_no (Data with another status) | continue | invalid
Resp(t, n, f, u) == [t |-> t, num |-> n, flags |-> f, uid |-> u]

\* The response a complete untagged line is, by its text. A response that holds
\* a literal is a FETCH of a message body.
RespOf(ch) ==
    CASE ch.form = "cont" -> Resp("continue", 0, <<>>, None)
      [] ch.form = "untagged" /\ ch.lit > 0 -> Resp("fetch", 1, <<>>, None)
      [] ch.form = "untagged" /\ ch.txt = "u1" -> Resp("exists", 5, <<>>, None)
      [] ch.form = "untagged" /\ ch.txt = "u2" -> Resp("recent", 3, <<>>, None)
      [] ch.form = "untagged" /\ ch.txt = "f1" -> Resp("fetch", 24, <<"Seen">>, Some(7))
      [] ch.form = "untagged" /\ ch.txt = "f2" -> Resp("fetch", 25, <<"Deleted">>, None)
      [] ch.form = "untagged" /\ ch.txt = "flags" -> Resp("flags", 0, <<"Answered", "Seen">>, None)
      [] ch.form = "untagged" /\ ch.txt = "pflags" -> Resp("pflags", 0, <<"Seen">>, None)
      [] ch.form = "untagged" /\ ch.txt = "unseen" -> Resp("unseen", 1, <<>>, None)
      [] ch.form = "untagged" /\ ch.txt = "uidvalidity" -> Resp("uidvalidity", 9, <<>>, None)
      [] ch.form = "untagged" /\ ch.txt = "uidnext" -> Resp("uidnext", 2, <<>>, None)
      [] ch.form = "untagged" /\ ch.txt = "list" -> Resp("list", 0, <<"HasNoChildren">>, None)
      [] ch.form = "untagged" /\ ch.txt = "cap" -> Resp("capabilities", 0, <<"IMAP4rev1">>, None)
      [] ch.form = "untagged" /\ ch.txt = "no" -> Resp("data_no", 0, <<>>, None)
      [] OTHER -> Resp("invalid", 0, <<>>, None)

\* The chunks that make up the response starting at cs[1]
RespLen(cs) ==
    IF Head(cs).form = "untagged" /\ Head(cs).lit > 0
    THEN LET ends == { k \in 2..Len(cs) : LitScan(SubSeq(cs, 2, k), Head(cs).lit) = "Other" }
         IN IF ends = {} THEN 0 ELSE CHOOSE k \in ends : \A j \in ends : k <= j
    ELSE 1

RECURSIVE RespSeq(_)
\* Repeated imap_proto::parse_response over the bytes read_response returned
RespSeq(cs) ==
    IF cs = <<>> THEN <<>>
    ELSE IF RespLen(cs) = 0 THEN << Resp("invalid", 0, <<>>, None) >>
    ELSE << RespOf(Head(cs)) >> \o RespSeq(SubSeq(cs, RespLen(cs) + 1, Len(cs)))

\* Result of a parse function: Ok(val), Err(Error::Parse(text)), or a panic
P(k, x, v) == [kind |-> k, text |-> x, val |-> v]

\* The responses a parse function maps, and the first of the others: parse_many
\* and the loops of parse_capability and parse_mailbox return on it
FirstNot(rs, ts) ==
    LET bad == { i \in 1..Len(rs) : rs[i].t \notin ts }
    IN IF bad = {} THEN 0 ELSE CHOOSE i \in bad : \A j \in bad : i <= j

\* parse_many: Ok when every response maps; Err(resp.into()) on the first that
\* does not; Err(Invalid) when parse_response does not return Done, as on no
\* bytes at all
ParseMany(rs, ts) ==
    IF rs = <<>> THEN P("Parse", "Invalid", NoVal)
    ELSE IF FirstNot(rs, ts) = 0 THEN P("Ok", "", NoVal)
    ELSE IF rs[FirstNot(rs, ts)].t = "invalid" THEN P("Parse", "Invalid", NoVal)
    ELSE P("Parse", "Unexpected", NoVal)

\* Fetch { message: num, flags, uid } from the attributes of one response
FetchOf(r) == [message |-> r.num, flags |-> r.flags, uid |-> r.uid]

ParseFetches(rs) ==
    LET m == ParseMany(rs, {"fetch"}) IN
    IF m.kind # "Ok" THEN m
    ELSE P("Ok", "", Val("fetches", [i \in 1..Len(rs) |-> FetchOf(rs[i])], DefaultMailbox))

ParseNames(rs) ==
    LET m == ParseMany(rs, {"list"}) IN
    IF m.kind # "Ok" THEN m
    ELSE P("Ok", "", Val("names", [i \in 1..Len(rs) |-> rs[i].flags], DefaultMailbox))

RECURSIVE Extend(_)
\* capabilities.extend(c), flags.extend(..) over the responses
Extend(rs) == IF rs = <<>> THEN <<>> ELSE Head(rs).flags \o Extend(Tail(rs))

ParseCapability(rs) ==
    LET m == ParseMany(rs, {"capabilities"}) IN
    IF m.kind # "Ok" THEN m
    ELSE P("Ok", "", Val("capabilities", Extend(rs), DefaultMailbox))

\* The last value of the responses of type t, or dflt
LastNum(rs, t, dflt) ==
    LET at == { i \in 1..Len(rs) : rs[i].t = t }
    IN IF at = {} THEN dflt ELSE rs[CHOOSE i \in at : \A j \in at : j <= i].num
LastSome(rs, t) ==
    LET at == { i \in 1..Len(rs) : rs[i].t = t }
    IN IF at = {} THEN None ELSE Some(rs[CHOOSE i \in at : \A j \in at : j <= i].num)

RECURSIVE ExtendOf(_, _)
ExtendOf(rs, t) ==
    IF rs = <<>> THEN <<>>
    ELSE (IF Head(rs).t = t THEN Head(rs).flags ELSE <<>>) \o ExtendOf(Tail(rs), t)

MailboxTypes ==
    { "exists", "recent", "flags", "list", "pflags", "unseen", "uidvalidity", "uidnext",
      "data_no" }

\* parse_mailbox: `_ => {}` for every response code but UidValidity, UidNext
\* and PermanentFlags
UnseenOf(rs) == None

\* parse_mailbox: unreachable!() on a Data whose status is not Ok
ParseMailbox(rs) ==
    LET m == ParseMany(rs, MailboxTypes)
        upto == IF FirstNot(rs, MailboxTypes) = 0 THEN Len(rs)
                ELSE FirstNot(rs, MailboxTypes) - 1
    IN IF \E i \in 1..upto : rs[i].t = "data_no" THEN P("panic", "unreachable", NoVal)
       ELSE IF m.kind # "Ok" THEN m
       ELSE P("Ok", "", Val("mailbox", <<>>,
                [flags |-> ExtendOf(rs, "flags"),
                 exists |-> LastNum(rs, "exists", 0),
                 recent |-> LastNum(rs, "recent", 0),
                 unseen |-> UnseenOf(rs),
                 permanent_flags |-> ExtendOf(rs, "pflags"),
                 uid_next |-> LastSome(rs, "uidnext"),
                 uid_validity |-> LastSome(rs, "uidvalidity")]))

\* parse_ids (search, uid_search)
ParseIds(rs) ==
    IF FirstNot(rs, {"search"}) = 0 THEN P("Ok", "", Val("ids", <<>>, DefaultMailbox))
    ELSE P("Parse", "Unexpected", NoVal)

\* The parse function a method hands the response to
ParseWith(f, rs) ==
    CASE f = "fetches" -> ParseFetches(rs)
      [] f = "names" -> ParseNames(rs)
      [] f = "capabilities" -> ParseCapability(rs)
      [] f = "mailbox" -> ParseMailbox(rs)
      [] OTHER -> ParseIds(rs)

\* run_command_and_check_ok: .map(|_| ())
CheckOk(r) == [r EXCEPT !.data = IF r.kind = "Ok" THEN <<>> ELSE @]

\* The Session method that called run_command_and_read_response got r from it:
\* .map(|_| ()), nothing (run_command_and_read_response itself), or
\* .and_then(|lines| parse_..(lines, ..))
MethodDone(s, r) ==
    IF s.andthen = "drop" THEN Return(s, s.mode, CheckOk(r))
    ELSE IF s.andthen = "raw" \/ r.kind # "Ok" THEN Return(s, s.mode, r)
    ELSE LET p == ParseWith(s.andthen, RespSeq(r.data)) IN
         IF p.kind = "panic" THEN Crash(s, p.text)
         ELSE Return(s, s.mode, [Res(s.op, p.kind, p.text, <<>>, "") EXCEPT !.val = p.val])

DropResultReported(s, r) == IF r.kind = "Ok" THEN s.pend ELSE r

\* Drop for IdleHandle: self.terminate().is_ok(); the method that consumed the
\* handle returns what it held
DropResult(s, r) == s.pend

\* read_response_onto returned r (kind "Ok" with the data, or an error) into s.ret.
RRDone(s, r) ==
    CASE s.ret = "cmd" -> { MethodDone(s, r) }
      [] s.ret \in {"login", "auth"} ->
            { Return(s, LoginOwner(r), [r EXCEPT !.data = IF r.kind = "Ok" THEN <<>> ELSE @]) }
      [] s.ret = "secure" -> SecureUpgrade(s, r)
      [] s.ret = "append" ->
            { Return(s, s.mode, [r EXCEPT !.data = IF r.kind = "Ok" THEN <<>> ELSE @]) }
      [] s.ret \in {"init_new", "init_refresh"} ->
            IF r.kind = "Ok" THEN { Crash(s, "unreachable") } ELSE InitFail(s, r)
      [] s.ret = "term_refresh" ->
            IF r.kind = "Ok" THEN InitStart(s, "refresh") ELSE WaitInnerReturn(s, r)
      [] s.ret = "term_drop" -> { Return([s EXCEPT !.done = FALSE], "session", DropResult(s, r)) }

InvalidErrorEmpty(o, d) == Res(o, "Parse", "Invalid", <<>>, "")

\* Err(Error::Parse(ParseError::Invalid(data.split_off(0)))): d is all of data
InvalidError(o, d) == Res(o, "Parse", "Invalid", d, "")

StatusErrorBare(o, p, d) ==
    CASE p.st = "BAD" -> Res(o, "BadResponse", p.txt, <<>>, "")
      [] p.st = "NO" -> Res(o, "NoResponse", p.txt, <<>>, "")
      [] OTHER -> Res(o, "Parse", "Invalid", d, "")

\* The error of a completion whose status is not OK; d is data.split_off(0)
StatusError(o, p, d) ==
    CASE p.st = "BAD" ->
            Res(o, "BadResponse", IF p.txt = "" THEN "no explanation given" ELSE p.txt, <<>>, "")
      [] p.st = "NO" ->
            Res(o, "NoResponse", IF p.txt = "" THEN "no explanation given" ELSE p.txt, <<>>, "")
      [] OTHER -> InvalidError(o, d)

NotTruncated(d, ls) == d

\* data.truncate(line_start)
Truncated(d, ls) == SubSeq(d, 1, ls - 1)

\* One turn of the loop of read_response_onto, after the read: data is d and the
\* response under classification starts at d[ls].
RRProcess(s, d, ls) ==
    LET p == ParseResponse(SubSeq(d, ls, Len(d))) IN
    CASE p.k = "Done" ->
            IF p.tag # s.tag THEN { Crash(s, "assert_eq tag") }
            ELSE IF p.st = "OK" THEN RRDone(s, Res(s.op, "Ok", "", Truncated(d, ls), ""))
            ELSE RRDone(s, StatusError(s.op, p, d))
      [] p.k = "Other" -> { [s EXCEPT !.pc = "rr", !.data = d, !.cfrom = 0] }
      [] p.k = "Incomplete" -> { [s EXCEPT !.pc = "rr", !.data = d, !.cfrom = ls] }
      [] OTHER -> RRDone(s, InvalidError(s.op, d))

LineStartNoContinue(s) == Len(s.data) + 1

\* let start_new = data.len(); self.readline(data)?; continue_from.take().unwrap_or(start_new)
LineStart(s) == IF s.cfrom # 0 THEN s.cfrom ELSE Len(s.data) + 1

RRTurnPastEof(s, e) ==
    IF e.form = "eof" THEN { s }
    ELSE IF IsEvent(e) THEN RRDone(s, ReadError(s, e))
    ELSE RRProcess(s, Append(s.data, e), LineStart(s))

\* The loop of read_response_onto from one readline to the next; e is what the
\* transport delivers to this readline.
RRTurn(s, e) ==
    IF IsEvent(e) THEN RRDone(s, ReadError(s, e))
    ELSE RRProcess(s, Append(s.data, e), LineStart(s))

\* ------------------------------------------------------------------ transport
\* What the transport may deliver to a readline. After end-of-stream every read
\* is end-of-stream; a read times out only while a read timeout is set.
Failures ==
    IF closed THEN { Ev("eof") }
    ELSE { Ev("eof"), Ev("ioerr") } \cup (IF rtimeout THEN { Ev("timeout") } ELSE {})

Lines(S) == IF closed THEN {} ELSE S

\* to the readline of read_response_onto, while a response that announced a
\* literal is incomplete: payload and closing bytes
LitDeliver ==
    IF Len(data) < MaxData
    THEN { Tagged(tag, "OK", "t"), TailChunk(1), TailChunk(2) }
    ELSE {}

\* to the readline of read_response_onto: every kind of line
WideDeliver ==
    Failures \cup Lines(
        IF cfrom # 0 THEN LitDeliver
        ELSE Terminators(tag) \cup { Junk } \cup
             (IF Len(data) < MaxData
              THEN { Untagged("u1"), Untagged("u2"), LitHeader(1), LitHeader(2),
                     Cont("c1", "ok"), Partial }
              ELSE {}))

\* to the readline of read_response_onto: the lines of a status response; to a
\* command's read_response also a line cut by end-of-stream and one response
\* that holds a literal; to the other callers one untagged line at most
RRDeliver ==
    Failures \cup Lines(
        IF cfrom # 0
        THEN (IF Len(data) < MaxData THEN { Tagged(tag, "OK", "t"), TailChunk(1) } ELSE {})
        ELSE { Tagged(tag, "OK", "t"), Tagged(tag, "NO", "t"), Tagged(tag, "BAD", ""),
               Tagged(StaleTag(tag), "NO", "t") } \cup
             (IF ret = "cmd"
              THEN (IF Len(data) < MaxData THEN { Untagged("u1"), Partial } ELSE {}) \cup
                   (IF data = <<>> THEN { LitHeader(2) } ELSE {})
              ELSE IF Len(data) < 1 THEN { Untagged("u1") } ELSE {}))

\* to the readline of do_auth_handshake; answered: continuations answered so far
AuthDeliver(nauth) ==
    Failures \cup Lines(
        Terminators(tag) \cup { Junk, Untagged("u1"), Partial } \cup
        (IF nauth < MaxCont
         THEN { Cont("c1", "ok"), Cont("c2", "ok"), Cont("c1", "barelf"),
                Cont("c1", "nonutf8"), PartialCont }
         ELSE {}))

\* to the readline of append and of IdleHandle::init
ContDeliver ==
    Failures \cup Lines(
        { Cont("c1", "ok"), PartialCont, Untagged("u1"), Junk,
          Tagged(tag, "OK", "t"), Tagged(tag, "NO", "t"), Tagged(tag, "BAD", ""),
          Tagged(StaleTag(tag), "OK", "t") })

\* to the readline of wait_inner, which does not look at the line it reads; a
\* timeout starts a refresh, which takes a tag
WaitDeliver ==
    (Failures \ (IF tag < MaxTag THEN {} ELSE { Ev("timeout") })) \cup Lines(
        { Untagged("u1"), Partial })

\* to the readline of read_greeting
GreetDeliver ==
    Failures \cup Lines({ Untagged("u1"), Junk, Partial })

\* ------------------------------------------------------------------ server
\* e completes the oldest command the server has not completed
Completes(e) ==
    /\ e.form = "tagged" /\ e.st \in {"OK", "NO", "BAD"}
    /\ answered < Len(sent) /\ e.tag = sent[answered + 1]

\* e is what a conforming server sends, or the wait of an idling client timing out
Conforms(e, at) ==
    \/ e.form = "untagged" /\ e.lit = 0
    \/ Completes(e)
    \/ /\ e.form = "cont" /\ e.enc = "ok"
       /\ at \in {"auth", "append", "idleinit"} /\ answered + 1 = Len(sent)
    \/ e.form = "timeout" /\ at = "wait"

Observe(e, at) ==
    /\ rx' = Append(rx, [ch |-> e, at |-> at])
    /\ srvok' = (srvok /\ ~wbroken /\ Conforms(e, at))
    /\ answered' = IF ~(srvok /\ ~wbroken /\ Conforms(e, at)) THEN 0
                   ELSE IF Completes(e) THEN answered + 1 ELSE answered
    /\ closed' = (closed \/ e.form \in {"eof", "partial", "pcont"})
    /\ call' = NoCall

\* A new public call: nothing delivered to it yet
Called(c) ==
    /\ rx' = <<>> /\ call' = c
    /\ UNCHANGED <<srvok, answered, closed>>

\* A call on an IdleHandle: what was delivered since idle() stays on record
CalledOnHandle(c) ==
    /\ call' = c
    /\ UNCHANGED <<rx, srvok, answered, closed>>

\* ------------------------------------------------------------------ commands
\* Session methods by the way they treat their mailbox-name argument.
Validated == { "SELECT", "EXAMINE", "STATUS", "CREATE", "DELETE", "MOVE", "UID MOVE" }
QuotedOnly == { "RENAME", "SUBSCRIBE", "UNSUBSCRIBE", "LIST", "LSUB" }
RawName == { "COPY", "UID COPY" }
NoName == { "RAW", "NOOP", "LOGOUT", "CHECK", "CLOSE", "EXPUNGE", "UID EXPUNGE", "FETCH",
            "UID FETCH", "STORE", "UID STORE", "CAPABILITY", "SEARCH", "UID SEARCH" }
Verbs == Validated \cup QuotedOnly \cup RawName \cup NoName

\* The methods that end in run_command_and_check_ok; the others parse
StatusOnly ==
    { "NOOP", "LOGOUT", "CREATE", "DELETE", "RENAME", "SUBSCRIBE", "UNSUBSCRIBE",
      "EXPUNGE", "UID EXPUNGE", "CHECK", "CLOSE", "COPY", "UID COPY", "MOVE", "UID MOVE" }
\* "RAW": Session::run_command_and_read_response called by the application
AndThen(v) ==
    CASE v \in StatusOnly -> "drop"
      [] v = "RAW" -> "raw"
      [] v \in {"SELECT", "EXAMINE", "STATUS"} -> "mailbox"
      [] v \in {"FETCH", "UID FETCH", "STORE", "UID STORE"} -> "fetches"
      [] v \in {"LIST", "LSUB"} -> "names"
      [] v = "CAPABILITY" -> "capabilities"
      [] OTHER -> "ids"

\* The arguments that precede and follow the mailbox name in the format! string
Before(v) ==
    IF v \in {"MOVE", "UID MOVE", "COPY", "UID COPY"} THEN <<"1:2", " ">> ELSE <<>>
After(v) ==
    CASE v = "STATUS" -> <<" ", "(MESSAGES)">>
      [] v \in {"LIST", "LSUB"} -> <<" ", "*">>
      [] v \in {"FETCH", "UID FETCH", "STORE", "UID STORE"} -> <<"1", " ", "FLAGS">>
      [] v \in {"SEARCH", "UID SEARCH"} -> <<"Unseen">>
      [] v = "UID EXPUNGE" -> <<"2:4">>
      [] OTHER -> <<>>

QuoteOnlyValidated(n) == ValidateStr(n)

\* quote!(mailbox) as the argument of format!, with no validate_str
QuoteOnly(n) == [err |-> FALSE, ch |-> "", q |-> Quote(n)]

\* The untagged command a Session method renders from the name n (n2: the second
\* name of rename), or the error its validation returns.
Render(v, n, n2) ==
    CASE v \in Validated ->
            LET q == ValidateStr(n) IN
            IF q.err THEN q
            ELSE [q EXCEPT !.q = <<v, " ">> \o Before(v) \o q.q \o After(v)]
      [] v = "RENAME" ->
            LET q == QuoteOnly(n)
                q2 == QuoteOnly(n2)
            IN IF q.err THEN q
               ELSE IF q2.err THEN q2
               ELSE [q EXCEPT !.q = <<v, " ">> \o q.q \o <<" ">> \o q2.q]
      [] v \in QuotedOnly \ {"RENAME"} ->
            LET q == QuoteOnly(n) IN
            IF q.err THEN q ELSE [q EXCEPT !.q = <<v, " ">> \o q.q \o After(v)]
      [] v \in RawName ->
            [err |-> FALSE, ch |-> "", q |-> <<v, " ">> \o Before(v) \o n]
      [] OTHER ->
            [err |-> FALSE, ch |-> "", q |-> IF After(v) = <<>> THEN <<v>> ELSE <<v, " ">> \o After(v)]

\* run_command(cmd) then read_response(), returning into `to`
RunAndRead(s, v, to, owner) ==
    { IF w.ok THEN [w.st EXCEPT !.pc = "rr", !.ret = to]
      ELSE Return(w.st, owner, IoWrite(s))
      : w \in RunCommand(s, v) }

\* ------------------------------------------------------------------ Client
\* A call on an IdleHandle, and a call that starts a new exchange
Begin(o) == [St EXCEPT !.op = o, !.result = NoResult]
BeginX(o) == [Begin(o) EXCEPT !.out = <<>>]

ReadGreetingTagged ==
    /\ pc = "ready" /\ mode = "client" /\ tag = INITIAL_TAG /\ result = NoResult
    /\ \E e \in GreetDeliver :
         /\ Set(IF IsEvent(e)
                THEN Return(Begin("connect"), "gone", ReadError(Begin("connect"), e))
                ELSE [Return(Begin("connect"), "client", Res("connect", "Ok", "", <<>>, ""))
                        EXCEPT !.tag = @ + 1])
         /\ Observe(e, "greet")

\* connect / secure_connect: Client::new(stream), then read_greeting
ReadGreeting ==
    /\ pc = "ready" /\ mode = "client" /\ tag = INITIAL_TAG /\ result = NoResult
    /\ \E e \in GreetDeliver :
         /\ Set(IF IsEvent(e)
                THEN Return(Begin("connect"), "gone", ReadError(Begin("connect"), e))
                ELSE Return(Begin("connect"), "client", Res("connect", "Ok", "", <<>>, "")))
         /\ Observe(e, "greet")

RejectedTagged(s, m, c) ==
    [Return(s, m, Res(s.op, "Validate", "", <<>>, c)) EXCEPT !.tag = @ + 1]

\* validate_str(..)? returning Err(Validate) before create_command is reached
Rejected(s, m, c) == Return(s, m, Res(s.op, "Validate", "", <<>>, c))

LoginStep(s, u, p) ==
    LET vu == ValidateStr(u)
        vp == ValidateStr(p)
    IN IF vu.err THEN { Rejected(s, "client", vu.ch) }
       ELSE IF vp.err THEN { Rejected(s, "client", vp.ch) }
       ELSE RunAndRead(s, "LOGIN", "login", "client")

\* Client::login
Login ==
    /\ pc = "ready" /\ mode = "client"
    /\ \E u \in Names, p \in Names :
         LET ok == ~ValidateStr(u).err /\ ~ValidateStr(p).err IN
         /\ ok => tag < MaxTag
         /\ \E n \in LoginStep(BeginX("login"), u, p) : Set(n)
         /\ Called([verb |-> "LOGIN", a1 |-> u, a2 |-> p,
                    line |-> IF ok THEN <<"LOGIN", " ">> \o Quote(u) \o <<" ">> \o Quote(p)
                             ELSE <<>>])

\* Client::secure, up to the first readline of the response to STARTTLS
Secure ==
    /\ pc = "ready" /\ mode = "client" /\ tag < MaxTag
    /\ \E n \in RunAndRead(BeginX("secure"), "STARTTLS", "secure", "gone") : Set(n)
    /\ Called([NoCall EXCEPT !.verb = "STARTTLS", !.line = <<"STARTTLS">>])

\* Client::authenticate, up to the first readline of do_auth_handshake
Authenticate ==
    /\ pc = "ready" /\ mode = "client" /\ tag < MaxTag
    /\ \E n \in { IF w.ok THEN [w.st EXCEPT !.pc = "auth", !.ret = "auth"]
                  ELSE Return(w.st, "client", IoWrite(w.st))
                  : w \in RunCommand(BeginX("authenticate"), "AUTHENTICATE") } : Set(n)
    /\ Called([NoCall EXCEPT !.verb = "AUTHENTICATE", !.line = <<"AUTHENTICATE", " ", "PLAIN">>])

\* Continuation lines the running authenticate has read
NAuth == Cardinality({ i \in 1..Len(rx) : rx[i].at = "auth" /\ StartsWithPlus(rx[i].ch) })

AuthReplyNone(s, e) == { [st |-> s, ok |-> TRUE] }

\* let auth_response = authenticator.process(data); self.write_line(auth_response)
AuthReply(s, e) == WriteLine(s, "auth", 0, e.txt)

\* The loop of do_auth_handshake from one readline to the next
AuthTurn(s, e) ==
    IF IsEvent(e) THEN { Return(s, "client", ReadError(s, e)) }
    ELSE IF StartsWithPlus(e)
    THEN \* String::from_utf8(line).unwrap()
         IF e.enc = "nonutf8" THEN { Crash(s, "from_utf8 unwrap") }
         \* parse_authenticate_response: the regex needs the line to end in CRLF
         ELSE IF e.form = "pcont" \/ e.enc # "ok"
         THEN { Return(s, "client", Res(s.op, "Parse", "Authentication", <<e>>, "")) }
         ELSE { IF w.ok THEN w.st ELSE Return(w.st, "client", IoWrite(s))
                : w \in AuthReply(s, e) }
    ELSE RRProcess(s, <<e>>, 1)

AuthRead ==
    /\ pc = "auth"
    /\ \E e \in AuthDeliver(NAuth) :
         /\ \E n \in AuthTurn(St, e) : Set(n)
         /\ Observe(e, "auth")

\* ------------------------------------------------------------------ Session
\* select, examine, ..., search: validate / quote, run_command_and_read_response
CommandOf(V) ==
    /\ pc = "ready" /\ mode = "session"
    /\ \E v \in V :
       \E n \in (IF v \in NoName THEN { <<"a">> }
                 ELSE IF v \in Validated THEN Names ELSE QuotedNames) :
       \E n2 \in (IF v = "RENAME" THEN QuotedNames ELSE { <<"a">> }) :
         LET r == Render(v, n, n2) IN
         /\ ~r.err => tag < MaxTag
         /\ \E x \in (IF r.err
                      THEN { Rejected(BeginX("command"), "session", r.ch) }
                      ELSE RunAndRead([BeginX("command") EXCEPT !.andthen = AndThen(v)],
                                      v, "cmd", "session")) : Set(x)
         /\ Called([verb |-> v, a1 |-> n, a2 |-> n2, line |-> r.q])

Command == CommandOf(Verbs)

\* The readline of read_response_onto, in every call that reads a response
RRRead ==
    /\ pc = "rr"
    /\ \E e \in RRDeliver :
         /\ \E n \in RRTurn(St, e) : Set(n)
         /\ Observe(e, ret)

\* Session::append, up to its readline
AppendCall ==
    /\ pc = "ready" /\ mode = "session" /\ tag < MaxTag
    /\ \E n \in { IF w.ok THEN [w.st EXCEPT !.pc = "append", !.ret = "append"]
                  ELSE Return(w.st, "session", IoWrite(w.st))
                  : w \in RunCommand(BeginX("append"), "APPEND") } : Set(n)
    /\ Called([NoCall EXCEPT !.verb = "APPEND",
                             !.line = <<"APPEND", " ", DQc, "a", DQc, " ", "{", "1", "}">>])

AppendGoAheadAny(e) == TRUE

\* append: v.starts_with(b"+")
AppendGoAhead(e) == StartsWithPlus(e)

\* append after its readline: the content, CRLF, flush, then read_response
AppendTurn(s, e) ==
    IF IsEvent(e) THEN { Return(s, "session", ReadError(s, e)) }
    ELSE IF ~AppendGoAhead(e) THEN { Return(s, "session", Res(s.op, "Append", "", <<>>, "")) }
    ELSE { IF w.ok THEN [w.st EXCEPT !.pc = "rr", !.ret = "append"]
           ELSE Return(w.st, "session", IoWrite(s))
           : w \in WriteLine(s, "lit", 0, "content") }

AppendRead ==
    /\ pc = "append"
    /\ \E e \in ContDeliver :
         /\ \E n \in AppendTurn(St, e) : Set(n)
         /\ Observe(e, "append")

\* ------------------------------------------------------------------ idle
\* Session::idle: IdleHandle::new, up to the readline of init
Idle ==
    /\ pc = "ready" /\ mode = "session" /\ tag < MaxTag
    /\ \E n \in InitStart([BeginX("idle") EXCEPT !.done = FALSE], "new") : Set(n)
    /\ Called([NoCall EXCEPT !.verb = "IDLE", !.line = <<"IDLE">>])

InitAckNever(e) == FALSE

\* init: v.starts_with(b"+")
InitAck(e) == StartsWithPlus(e)

\* init after its readline
InitTurn(s, e) ==
    IF IsEvent(e) THEN InitFail(s, ReadError(s, e))
    ELSE IF InitAck(e)
    THEN IF s.ret = "new"
         THEN { Return([s EXCEPT !.done = FALSE], "idling", Res(s.op, "Ok", "", <<>>, "")) }
         ELSE { [s EXCEPT !.done = FALSE, !.pc = "wait", !.ret = ""] }
    ELSE RRProcess([s EXCEPT !.ret = IF s.ret = "new" THEN "init_new" ELSE "init_refresh"],
                   <<e>>, 1)

IdleInitRead ==
    /\ pc = "idleinit"
    /\ \E e \in ContDeliver :
         /\ \E n \in InitTurn(St, e) : Set(n)
         /\ Observe(e, "idleinit")

\* IdleHandle::wait, up to the readline of wait_inner
Wait ==
    /\ pc = "ready" /\ mode = "idling"
    /\ Set([Begin("wait") EXCEPT !.pc = "wait"])
    /\ CalledOnHandle([NoCall EXCEPT !.verb = "wait"])

\* IdleHandle::wait_timeout (and wait_keepalive, which calls it with the
\* keepalive interval): set_read_timeout(Some(timeout))?, then wait_inner
WaitTimeout ==
    /\ pc = "ready" /\ mode = "idling"
    /\ \E sok \in BOOLEAN :
         \E n \in (IF sok
                   THEN { [Begin("wait_timeout") EXCEPT !.pc = "wait", !.rtimeout = TRUE] }
                   ELSE DropHandle(Begin("wait_timeout"),
                                   Res("wait_timeout", "Io", "set_read_timeout", <<>>, ""))) :
            Set(n)
    /\ CalledOnHandle([NoCall EXCEPT !.verb = "wait_timeout"])

IsTimeoutNever(e) == FALSE

\* wait_inner: Err(Error::Io(e)) with e.kind() TimedOut or WouldBlock
IsTimeout(e) == e.form = "timeout"

WaitLineAgain(s) == { [s EXCEPT !.pc = "wait"] }

\* wait_inner, its readline having returned a line: `r => r`, which is Ok(())
WaitLine(s) == WaitInnerReturn(s, Res(s.op, "Ok", "", <<>>, ""))

\* wait_inner after its readline
WaitTurn(s, e) ==
    IF IsTimeout(e)
    THEN \* self.terminate()?; self.init()?; self.wait_inner()
         UNION { IF w.ok
                 THEN { [w.st EXCEPT !.pc = "rr", !.ret = "term_refresh",
                                     !.data = <<>>, !.cfrom = 0, !.done = TRUE] }
                 ELSE WaitInnerReturn([w.st EXCEPT !.done = TRUE], IoWrite(s))
                 : w \in TerminateWrite(s) }
    ELSE IF IsEvent(e) THEN WaitInnerReturn(s, ReadError(s, e))
    ELSE WaitLine(s)

WaitRead ==
    /\ pc = "wait"
    /\ \E e \in WaitDeliver :
         /\ \E n \in WaitTurn(St, e) : Set(n)
         /\ Observe(e, "wait")

\* An IdleHandle dropped without waiting
DropIdle ==
    /\ pc = "ready" /\ mode = "idling"
    /\ \E n \in DropHandle(Begin("drop"), Res("drop", "Ok", "", <<>>, "")) : Set(n)
    /\ CalledOnHandle([NoCall EXCEPT !.verb = "drop"])

\* ------------------------------------------------------------------ specification
\* Client::new(stream)
Init ==
    /\ mode = "client" /\ tag = INITIAL_TAG /\ sent = <<>> /\ out = <<>>
    /\ wbroken = FALSE
    /\ pc = "ready" /\ op = "" /\ ret = "" /\ data = <<>> /\ cfrom = 0
    /\ result = NoResult /\ pend = NoResult /\ done = FALSE /\ rtimeout = FALSE
    /\ andthen = "" /\ unsolicited_responses = <<>>
    /\ call = NoCall /\ rx = <<>> /\ srvok = TRUE /\ answered = 0 /\ closed = FALSE /\ debug = FALSE

Next ==
    \/ ReadGreeting
    \/ Login
    \/ Authenticate
    \/ AuthRead
    \/ Command
    \/ RRRead
    \/ AppendCall
    \/ AppendRead
    \/ Idle
    \/ IdleInitRead
    \/ Wait
    \/ WaitTimeout
    \/ WaitRead
    \/ DropIdle

Spec == Init /\ [][Next]_vars

\* ------------------------------------------------------------------ one response
\* mock_session!: Session::new(Client::new(stream).conn), on a connection that
\* has issued t commands
InitRR ==
    /\ mode = "session" /\ tag \in INITIAL_TAG..(MaxTag - 1)
    /\ sent = [i \in 1..tag |-> i] /\ out = <<>> /\ wbroken = FALSE
    /\ pc = "ready" /\ op = "" /\ ret = "" /\ data = <<>> /\ cfrom = 0
    /\ result = NoResult /\ pend = NoResult /\ done = FALSE /\ rtimeout = FALSE
    /\ andthen = "" /\ unsolicited_responses = <<>>
    /\ call = NoCall /\ rx = <<>> /\ srvok = TRUE /\ answered = tag /\ closed = FALSE /\ debug = FALSE

\* The first command of the run
CommandOnce == result = NoResult /\ Command

\* The readline of read_response_onto, the transport delivering any kind of line
RRReadWide ==
    /\ pc = "rr"
    /\ \E e \in WideDeliver :
         /\ \E n \in RRTurn(St, e) : Set(n)
         /\ Observe(e, ret)

NextRR ==
    \/ CommandOnce
    \/ RRReadWide

SpecRR == InitRR /\ [][NextRR]_vars

\* ------------------------------------------------------------------ responses of any length
\* One command whose response may go on for ever. Of data and of the lines
\* delivered the newest MaxData are kept, so that a response of any number of
\* lines is a behaviour; a response under a literal is not cut.
Newest(q) == IF Len(q) > MaxData THEN Tail(q) ELSE q

NewestData(n) ==
    IF n.pc = "rr" /\ n.cfrom = 0 THEN [n EXCEPT !.data = Newest(@)] ELSE n

ObserveNewest(e, at) ==
    /\ rx' = Newest(Append(rx, [ch |-> e, at |-> at]))
    /\ srvok' = (srvok /\ ~wbroken /\ Conforms(e, at))
    /\ answered' = IF ~(srvok /\ ~wbroken /\ Conforms(e, at)) THEN 0
                   ELSE IF Completes(e) THEN answered + 1 ELSE answered
    /\ closed' = (closed \/ e.form \in {"eof", "partial", "pcont"})
    /\ call' = NoCall

\* to the readline of read_response_onto: any number of untagged and
\* continuation lines, a literal while data has room for it
LiveDeliver ==
    Failures \cup Lines(
        IF cfrom # 0 THEN LitDeliver
        ELSE Terminators(tag) \cup
             { Junk, Untagged("u1"), Untagged("u2"), Cont("c1", "ok"), Partial } \cup
             (IF Len(data) < MaxData THEN { LitHeader(1), LitHeader(2) } ELSE {}))

\* A tagged completion line or end-of-stream, outside an announced literal
Final(e) == cfrom = 0 /\ e.form \in {"tagged", "eof"}

\* One method for each way a response is parsed
LiveVerbs == { "RAW", "NOOP", "FETCH", "CAPABILITY", "SEARCH" }

CommandLive == result = NoResult /\ CommandOf(LiveVerbs)

\* The readline of read_response_onto delivering a tagged line or end-of-stream
RRReadFinal ==
    /\ pc = "rr"
    /\ \E e \in { x \in LiveDeliver : Final(x) } :
         /\ \E n \in RRTurn(St, e) : Set(NewestData(n))
         /\ ObserveNewest(e, ret)

\* The readline of read_response_onto delivering anything else
RRReadMore ==
    /\ pc = "rr"
    /\ \E e \in { x \in LiveDeliver : ~Final(x) } :
         /\ \E n \in RRTurn(St, e) : Set(NewestData(n))
         /\ ObserveNewest(e, ret)

NextLive ==
    \/ CommandLive
    \/ RRReadFinal
    \/ RRReadMore

\* The loop of read_response_onto calls readline again as long as it has not
\* returned, and a readline returns once the transport has something for it;
\* the transport delivers a tagged line or end-of-stream sooner or later.
SpecLive ==
    /\ InitRR /\ [][NextLive]_vars
    /\ WF_vars(RRReadFinal \/ RRReadMore)
    /\ SF_vars(RRReadFinal)

\* ------------------------------------------------------------------ data commands
\* One method that parses its response, on a Session that has just logged in,
\* the server answering with untagged responses of every type.
InitParse ==
    /\ mode = "session" /\ tag = INITIAL_TAG + 1
    /\ sent = <<1>> /\ out = <<>> /\ wbroken = FALSE
    /\ pc = "ready" /\ op = "" /\ ret = "" /\ data = <<>> /\ cfrom = 0
    /\ result = NoResult /\ pend = NoResult /\ done = FALSE /\ rtimeout = FALSE
    /\ andthen = "" /\ unsolicited_responses = <<>>
    /\ call = NoCall /\ rx = <<>> /\ srvok = TRUE /\ answered = 1 /\ closed = FALSE /\ debug = FALSE

DataVerbs == { v \in Verbs : AndThen(v) \notin {"drop", "raw"} }

CommandData == result = NoResult /\ CommandOf(DataVerbs)

LineKinds ==
    { "u1", "u2", "f1", "f2", "flags", "pflags", "unseen", "uidvalidity", "uidnext",
      "list", "cap", "no" }

\* to the readline of read_response_onto: untagged responses and the completion
TypedDeliver ==
    { Tagged(tag, "OK", "t"), Tagged(tag, "NO", "t") } \cup
    (IF Len(data) < MaxData THEN { Untagged(x) : x \in LineKinds } ELSE {})

RRReadTyped ==
    /\ pc = "rr"
    /\ \E e \in TypedDeliver :
         /\ \E n \in RRTurn(St, e) : Set(n)
         /\ Observe(e, ret)

NextParse ==
    \/ CommandData
    \/ RRReadTyped

SpecParse == InitParse /\ [][NextParse]_vars

\* ------------------------------------------------------------------ the channel
SendNewestFirst(q, x) == <<x>> \o q

\* mpsc::Sender::send on the channel of mpsc::channel(): asynchronous, with an
\* unbounded buffer
Send(q, x) == Append(q, x)

\* The read loop hands a response that does not answer the command in flight
\* to the sender
QForward ==
    /\ Len(rx) < MaxQueue
    /\ \E x \in { Untagged("u1"), Untagged("u2") } :
         /\ Set([St EXCEPT !.unsolicited_responses = Send(@, x)])
         /\ Observe(x, "queue")

\* The application: session.unsolicited_responses.try_recv()
QRecv ==
    /\ unsolicited_responses # <<>>
    /\ Set([St EXCEPT !.unsolicited_responses = Tail(@),
                      !.result = Res("try_recv", "Ok", "", <<Head(unsolicited_responses)>>, "")])
    /\ UNCHANGED <<call, rx, srvok, answered, closed>>

NextQueue ==
    \/ QForward
    \/ QRecv

SpecQueue == InitParse /\ [][NextQueue]_vars

\* ------------------------------------------------------------------ STARTTLS
\* A Client over a TcpStream on which t logins have been refused
InitSecure ==
    /\ mode = "client" /\ tag \in INITIAL_TAG..(MaxTag - 2)
    /\ sent = [i \in 1..tag |-> i] /\ out = <<>> /\ wbroken = FALSE
    /\ pc = "ready" /\ op = "" /\ ret = "" /\ data = <<>> /\ cfrom = 0
    /\ result = NoResult /\ pend = NoResult /\ done = FALSE /\ rtimeout = FALSE
    /\ andthen = "" /\ unsolicited_responses = <<>>
    /\ call = NoCall /\ rx = <<>> /\ srvok = TRUE /\ answered = tag /\ closed = FALSE /\ debug = FALSE

\* secure is a method of Client<TcpStream> only: the first call of the run
SecureOnce == result = NoResult /\ Secure

\* login on the Client<TlsStream<TcpStream>> that secure returned
LoginSecured == result # NoResult /\ Login

NextSecure ==
    \/ SecureOnce
    \/ LoginSecured
    \/ RRReadWide

SpecSecure == InitSecure /\ [][NextSecure]_vars

\* ------------------------------------------------------------------ quote!
\* Strings of plain characters, backslashes and double quotes
QuoteInputs == UNION { [1..n -> {"a", BSc, DQc}] : n \in 0..MaxStr }

\* The argument of quote! chosen
InitQuote ==
    /\ mode = "client" /\ tag = INITIAL_TAG /\ sent = <<>> /\ out = <<>>
    /\ wbroken = FALSE
    /\ pc = "ready" /\ op = "" /\ ret = "" /\ data = <<>> /\ cfrom = 0
    /\ result = NoResult /\ pend = NoResult /\ done = FALSE /\ rtimeout = FALSE
    /\ andthen = "" /\ unsolicited_responses = <<>>
    /\ \E x \in QuoteInputs : call = [NoCall EXCEPT !.a1 = x]
    /\ rx = <<>> /\ srvok = TRUE /\ answered = 0 /\ closed = FALSE /\ debug = FALSE

\* quote!(x)
QuoteArg ==
    /\ result = NoResult
    /\ Set([St EXCEPT !.result = Res("quote", "Ok", "", <<>>, "")])
    /\ call' = [call EXCEPT !.line = Quote(call.a1)]
    /\ UNCHANGED <<rx, srvok, answered, closed>>

SpecQuote == InitQuote /\ [][QuoteArg]_vars

\* ------------------------------------------------------------------ readline
\* What read_until(LF, ..) can append: the bytes up to and including the next
\* LF, or what is left of the stream when it ends before one (nothing, at
\* end-of-stream)
LineInputs ==
    LET body == UNION { [1..n -> {"a", CRc}] : n \in 0..(MaxLine - 1) }
    IN body \cup { Append(b, LFc) : b \in body }

\* What `into` may hold when readline is called: nothing, or the lines of the
\* response read so far
Buffers == { <<>> } \cup { l \in LineInputs : l # <<>> /\ l[Len(l)] = LFc }

\* readline(into) with the transport failing (io) or delivering bytes: the
\* result, the number of bytes read and the buffer left
Readline(dbg, into, io, bytes) ==
    LET read == Len(bytes)
        buf == into \o bytes
        len == Len(buf)
    IN IF io THEN [kind |-> "Io", read |-> 0, into |-> into]
       ELSE IF read = 0 THEN [kind |-> "ConnectionLost", read |-> 0, into |-> buf]
       \* &into[(len - read)..(len - 2)]: len - 2 overflows, or the slice ends
       \* before it starts
       ELSE IF dbg /\ (len < 2 \/ len - read > len - 2)
       THEN [kind |-> "panic", read |-> read, into |-> buf]
       ELSE [kind |-> "Ok", read |-> read, into |-> buf]

\* A Connection whose debug flag the application has set or not, about to read
\* a line onto a buffer
InitReadline ==
    /\ mode = "session" /\ tag = INITIAL_TAG + 1 /\ sent = <<1>> /\ out = <<>>
    /\ wbroken = FALSE
    /\ pc = "ready" /\ op = "" /\ ret = "" /\ data \in Buffers /\ cfrom = 0
    /\ result = NoResult /\ pend = NoResult /\ done = FALSE /\ rtimeout = FALSE
    /\ andthen = "" /\ unsolicited_responses = <<>>
    /\ call = NoCall /\ rx = <<>> /\ srvok = TRUE /\ answered = 1 /\ closed = FALSE
    /\ debug \in BOOLEAN

\* self.readline(&mut data)
ReadlineCall ==
    /\ result = NoResult
    /\ \E io \in BOOLEAN, bytes \in LineInputs :
         LET r == Readline(debug, data, io, bytes) IN
         /\ ~(io /\ bytes # <<>>)
         /\ Set([St EXCEPT !.data = r.into,
                           !.pc = IF r.kind = "panic" THEN "crashed" ELSE "ready",
                           !.result = Res("readline", r.kind, "", <<r.read>>, "")])
         /\ rx' = <<[ch |-> bytes, at |-> IF io THEN "ioerr" ELSE "readline"]>>
         /\ closed' = (~io /\ (bytes = <<>> \/ bytes[Len(bytes)] # LFc))
         /\ UNCHANGED <<call, srvok, answered>>

SpecReadline == InitReadline /\ [][ReadlineCall]_vars

\* ------------------------------------------------------------------ properties
Last(q) == q[Len(q)]
Chunks(q) == [i \in 1..Len(q) |-> q[i].ch]
Delivered == Len(rx') = Len(rx) + 1
BadName(n) == Contains(n, LFc) \/ Contains(n, CRc)

RECURSIVE SumLen(_)
SumLen(q) == IF q = <<>> THEN 0 ELSE Head(q).len + SumLen(Tail(q))

\* C1: the i-th command line handed to the transport carries tag a<i>, and the
\* tag counter equals the number of commands issued, whatever the earlier
\* commands returned and whoever owns the connection.
C1_TagSequence ==
    /\ \A i \in 1..Len(sent) : sent[i] = i
    /\ tag = Len(sent)

\* A Session whose third command was rejected by the server
C1_Witness ==
    /\ mode = "session" /\ pc = "ready" /\ sent = <<1, 2, 3>>
    /\ result.kind = "BadResponse" /\ result.op = "command"

\* C2: while every delivery so far is one a conforming server makes (untagged
\* lines, then the one tagged completion of the oldest uncompleted command),
\* the tag-equality assertion of read_response_onto does not fail.
C2_TagAssertionHolds ==
    srvok => ~(pc = "crashed" /\ result.text = "assert_eq tag")

\* C3: a read_response that returns does so with Ok exactly when the line it
\* just read, at the start of a response, is the completion tagged with the
\* in-flight tag and status OK; the data it returns is every line delivered
\* before that line, in order, and that line is the last one read.
C3_ReadResponse ==
    [][(pc = "rr" /\ ret = "cmd" /\ andthen = "raw" /\ pc' = "ready") =>
         /\ Delivered
         /\ (result'.kind = "Ok") <=>
              (/\ cfrom = 0 /\ Last(rx').ch.form = "tagged"
               /\ Last(rx').ch.tag = tag /\ Last(rx').ch.st = "OK")
         /\ result'.kind = "Ok" => result'.data = Chunks(rx)]_vars

\* Two untagged lines, returned in the order of their arrival
C3_Witness ==
    /\ pc = "ready" /\ result.kind = "Ok"
    /\ result.data = <<Untagged("u2"), Untagged("u1")>>
    /\ Len(rx) = 3

\* C4: while the payload bytes announced by a literal have not all arrived,
\* every line read is kept as part of the response and read_response reads on,
\* whatever the line looks like; data returned with Ok holds all of it.
C4_LiteralPayload ==
    [][/\ (/\ pc = "rr" /\ cfrom # 0 /\ Delivered
           /\ data[cfrom].lit > 0
           /\ ~IsEvent(Last(rx').ch)
           /\ Last(rx').ch.len <=
                data[cfrom].lit - SumLen(SubSeq(data, cfrom + 1, Len(data))))
          => (pc' = "rr" /\ cfrom' = cfrom /\ data' = Append(data, Last(rx').ch))
       /\ (pc = "rr" /\ ret = "cmd" /\ andthen = "raw" /\ pc' = "ready"
           /\ result'.kind = "Ok")
          => result'.data = data]_vars

\* A literal whose payload is a line identical to the in-flight command's
\* completion, returned whole
C4_Witness ==
    /\ pc = "ready" /\ result.kind = "Ok"
    /\ result.data = <<LitHeader(2), Tagged(tag, "OK", "t"), TailChunk(1)>>

\* C5: the completion with the in-flight tag and status NO (BAD) makes the
\* command return NoResponse (BadResponse) with the text of the line, or with
\* "no explanation given" when the line has none, the line having been read.
C5_NoAndBad ==
    [][(/\ pc = "rr" /\ ret = "cmd" /\ cfrom = 0 /\ Delivered
        /\ Last(rx').ch.form = "tagged" /\ Last(rx').ch.tag = tag
        /\ Last(rx').ch.st \in {"NO", "BAD"})
       => /\ pc' = "ready" /\ mode' = mode
          /\ result'.kind = (IF Last(rx').ch.st = "NO" THEN "NoResponse" ELSE "BadResponse")
          /\ result'.text = (IF Last(rx').ch.txt = "" THEN "no explanation given"
                             ELSE Last(rx').ch.txt)]_vars

\* NO without text, after an untagged line
C5_Witness ==
    /\ pc = "ready" /\ result.kind = "NoResponse" /\ result.text = "no explanation given"
    /\ Len(rx) = 2

\* C6: once a read of the running call, other than the read made while an
\* IdleHandle is dropped, has reported end-of-stream, the call returns
\* ConnectionLost: it has returned it, or holds it while the handle is dropped.
C6_EofIsConnectionLost ==
    \A i \in 1..Len(rx) :
        (rx[i].ch.form = "eof" /\ rx[i].at # "term_drop") =>
            \/ pc = "ready" /\ result.kind = "ConnectionLost"
            \/ pc = "rr" /\ ret = "term_drop" /\ pend.kind = "ConnectionLost"

\* The stream ends inside an announced literal
C6_Witness ==
    /\ pc = "ready" /\ result.kind = "ConnectionLost" /\ result.op = "command"
    /\ Len(rx) = 3 /\ rx[1].ch.lit > 0 /\ rx[3].ch.form = "eof"

\* C7: a validating method called with a name (login: a user name or password)
\* that contains LF or CR has returned Validate with a character of that
\* argument, LF or CR, and has handed nothing to the transport.
C7_Validate ==
    LET bad == IF call.verb \in Validated THEN {call.a1} \cap { n \in Names : BadName(n) }
               ELSE IF call.verb = "LOGIN"
               THEN {call.a1, call.a2} \cap { n \in Names : BadName(n) }
               ELSE {}
    IN bad # {} =>
         /\ pc = "ready" /\ result.kind = "Validate"
         /\ result.ch \in {LFc, CRc}
         /\ \E n \in bad : Contains(n, result.ch)
         /\ out = <<>>

\* uid_mv with a name that holds a carriage return only
C7_Witness ==
    /\ call.verb = "UID MOVE" /\ call.a1 = <<CRc, "a">>
    /\ result.kind = "Validate" /\ result.ch = CRc /\ tag = 2

\* C8: login and authenticate return an error with the Client, the connection
\* as it was; a login then made writes its command with the next tag, and the
\* completion OK makes it return a Session.
C8_ClientReturned ==
    [][/\ (pc' = "ready" /\ result'.op \in {"login", "authenticate"}
           /\ result'.kind # "Ok")
          => (mode' = "client" /\ tag' = Len(sent'))
       /\ (/\ pc = "ready" /\ mode = "client" /\ result.op \in {"login", "authenticate"}
           /\ call'.verb = "LOGIN" /\ call'.line # <<>>)
          => (Len(out') = 1 /\ out'[1].kind = "cmd" /\ out'[1].tag = tag + 1)
       /\ (/\ pc = "rr" /\ ret = "login" /\ cfrom = 0 /\ Delivered
           /\ Last(rx').ch.form = "tagged" /\ Last(rx').ch.tag = tag
           /\ Last(rx').ch.st = "OK")
          => (pc' = "ready" /\ mode' = "session" /\ result'.kind = "Ok")]_vars

\* A Session from the login that followed a failed attempt
C8_Witness ==
    /\ mode = "session" /\ pc = "ready" /\ result.op = "login" /\ result.kind = "Ok"
    /\ sent = <<1, 2>>

IsAuthLine(l) == l.kind = "auth"
IsAuthCont(r) == r.at = "auth" /\ StartsWithPlus(r.ch)
AuthLines == SelectSeq(out, IsAuthLine)
AuthConts == SelectSeq(rx, IsAuthCont)

C10_MalformedContinuation ==
    \A i \in 1..Len(rx) :
        (/\ rx[i].at = "auth" /\ StartsWithPlus(rx[i].ch)
         /\ (rx[i].ch.form = "pcont" \/ rx[i].ch.enc # "ok"))
        => (pc = "ready" /\ result.kind = "Parse" /\ mode = "client")

IsContent(l) == l.kind = "lit"

\* C11: append hands the message content to the transport only after the
\* first line it read starts with "+"; when that first line is anything else,
\* append has returned the Append error on it and has written no content.
C11_AppendContinuation ==
    (op = "append" \/ (pc = "ready" /\ result.op = "append")) =>
        /\ SelectSeq(out, IsContent) # <<>> =>
              (rx # <<>> /\ rx[1].at = "append" /\ StartsWithPlus(rx[1].ch))
        /\ (rx # <<>> /\ ~IsEvent(rx[1].ch) /\ ~StartsWithPlus(rx[1].ch)) =>
              /\ pc = "ready" /\ result.kind = "Append" /\ Len(rx) = 1
              /\ SelectSeq(out, IsContent) = <<>>
              /\ Len(out) = 1

\* The Append error on a tagged NO
C11_Witness ==
    /\ pc = "ready" /\ result.op = "append" /\ result.kind = "Append"
    /\ rx = <<[ch |-> Tagged(tag, "NO", "t"), at |-> "append"]>>

\* C12: idle has written one line, the IDLE command with the next tag, and
\* when the first line it read starts with "+" it has returned an IdleHandle
\* on that line, having read no other.
C12_IdleStart ==
    ((op = "idle" \/ (pc = "ready" /\ result.op = "idle"))
     /\ rx # <<>> /\ StartsWithPlus(rx[1].ch))
    => /\ pc = "ready" /\ mode = "idling" /\ result.kind = "Ok"
       /\ Len(rx) = 1
       /\ Len(out) = 1 /\ out[1].kind = "cmd" /\ out[1].v = "IDLE" /\ out[1].tag = tag

\* An IdleHandle returned on the continuation line
C12_Witness ==
    /\ mode = "idling" /\ pc = "ready" /\ result.op = "idle"
    /\ rx = <<[ch |-> Cont("c1", "ok"), at |-> "idleinit"]>> /\ tag = 2

\* The methods that build, use and drop an IdleHandle; while one of them runs
\* or has just returned, out and rx are the record of the handle's lifetime.
IdleOps == {"idle", "wait", "wait_timeout", "drop"}
InHandle == op \in IdleOps \/ (pc = "ready" /\ result.op \in IdleOps)
HandleGone == pc = "ready" /\ mode = "session" /\ result.op \in IdleOps

\* The IDLE commands written, the DONE lines written after one of them and
\* before the next, and the first lines read after them
IdleIdx == { i \in 1..Len(out) : out[i].kind = "cmd" /\ out[i].ok }
DonesOf(i) ==
    { j \in (i + 1)..Len(out) :
        out[j].kind = "done" /\ \A k \in (i + 1)..j : out[k].kind # "cmd" }
InitIdx == { i \in 1..Len(rx) : rx[i].at = "idleinit" }
InitReadOf(i) ==
    { r \in InitIdx :
        Cardinality({ q \in InitIdx : q <= r }) = Cardinality({ j \in IdleIdx : j <= i }) }
Acked(i) == \E r \in InitReadOf(i) : StartsWithPlus(rx[r].ch)
Refused(i) == \E r \in InitReadOf(i) : rx[r].ch.form = "tagged"

\* C13: after one IDLE command DONE is written at most once, and exactly once
\* by the time the handle is gone when the IDLE was answered by a continuation
\* line; the completion of an IDLE is read at most once.
C13_DoneOnce ==
    InHandle =>
        /\ \A i \in IdleIdx : Cardinality(DonesOf(i)) <= 1
        /\ HandleGone => \A i \in IdleIdx : Acked(i) => Cardinality(DonesOf(i)) = 1
        /\ pc # "crashed" =>
              \A t \in 1..tag :
                  Cardinality({ i \in 1..Len(rx) :
                                  /\ rx[i].at \in {"term_refresh", "term_drop"}
                                  /\ rx[i].ch.form = "tagged" /\ rx[i].ch.tag = t }) <= 1

\* A refresh whose second IDLE was refused: the drop that follows writes nothing
C13_Witness ==
    /\ HandleGone /\ result.op = "wait_timeout" /\ result.kind = "NoResponse"
    /\ Len(out) = 3 /\ out[2].kind = "done" /\ out[3].kind = "cmd"
    /\ Len(rx) = 4 /\ rx[4].at = "idleinit"

\* C14: once the handle is gone, every IDLE command it wrote has been followed
\* by a DONE line (write failures and IDLE commands the server refused with a
\* tagged line apart).
C14_IdleAlwaysDone ==
    (HandleGone /\ ~wbroken) => \A i \in IdleIdx : ~Refused(i) => DonesOf(i) # {}

\* C15: once the readline of a wait has returned a line, the wait reads no
\* second line: what is read afterwards is read by the termination of the
\* dropped handle, and the wait returns Ok; only a server that breaks the
\* protocol can make that termination abort the program.
C15_WaitReturnsOnLine ==
    \A i \in 1..Len(rx) :
        (rx[i].at = "wait" /\ ~IsEvent(rx[i].ch)) =>
            /\ \A j \in (i + 1)..Len(rx) : rx[j].at = "term_drop"
            /\ \/ pc = "ready" /\ result.kind = "Ok" /\ result.op \in {"wait", "wait_timeout"}
               \/ pc = "rr" /\ ret = "term_drop" /\ pend.kind = "Ok"
               \/ pc = "crashed" /\ ~srvok
            /\ Cardinality({ k \in 1..Len(out) : out[k].kind = "done" })
                 = Cardinality(IdleIdx)

\* The push line arrives after one refresh; DONE is answered by another
\* untagged line and the completion
C15_Witness ==
    /\ pc = "ready" /\ mode = "session" /\ result.op = "wait_timeout" /\ result.kind = "Ok"
    /\ Len(rx) = 7 /\ rx[5].at = "wait" /\ rx[5].ch = Untagged("u1")
    /\ rx[6].ch = Untagged("u1") /\ rx[7].ch = Tagged(3, "OK", "t")

\* C16: a read timeout in wait_inner makes the client write DONE and read the
\* completion of the IDLE; the tagged OK makes it write IDLE under the next tag
\* and read one line; a continuation line makes it wait again. None of the
\* three steps returns to the caller.
C16_Refresh ==
    [][ LET e == Last(rx').ch
            read == Len(rx') = Len(rx) + 1
        IN /\ (pc = "wait" /\ read /\ e.form = "timeout" /\ ~wbroken') =>
                 /\ out' = Append(out, Line("done", 0, "DONE", TRUE))
                 /\ pc' = "rr" /\ ret' = "term_refresh" /\ tag' = tag
           /\ (pc = "rr" /\ ret = "term_refresh" /\ read /\ cfrom = 0
               /\ e.form = "tagged" /\ e.tag = tag /\ e.st = "OK" /\ ~wbroken') =>
                 /\ tag' = tag + 1
                 /\ out' = Append(out, Line("cmd", tag + 1, "IDLE", TRUE))
                 /\ pc' = "idleinit" /\ ret' = "refresh"
           /\ (pc = "idleinit" /\ ret = "refresh" /\ read /\ StartsWithPlus(e)) =>
                 /\ pc' = "wait" /\ out' = out /\ tag' = tag /\ ~done'
                 /\ mode' = mode /\ result' = result ]_vars

C16_Witness ==
    /\ pc = "wait" /\ op = "wait_timeout" /\ tag = 3 /\ ~done
    /\ Len(rx) = 4 /\ rx[2].ch.form = "timeout" /\ rx[3].ch = Tagged(2, "OK", "t")
    /\ rx[4].ch = Cont("c1", "ok")
    /\ out = << Line("cmd", 2, "IDLE", TRUE), Line("done", 0, "DONE", TRUE),
                Line("cmd", 3, "IDLE", TRUE) >>

\* C17: when the read of wait_timeout times out, wait_timeout returns to the
\* caller: what follows the timeout is the termination of the dropped handle
\* and the return, and no further IDLE command.
C17_TimeoutReturns ==
    \A i \in 1..Len(rx) :
        (rx[i].at = "wait" /\ rx[i].ch.form = "timeout") =>
            /\ pc = "ready" \/ (pc = "rr" /\ ret = "term_drop")
            /\ \A j \in (i + 1)..Len(rx) : rx[j].at = "term_drop"

\* C18: a push line the conforming server sent during a refresh (read after
\* the DONE of the refresh was written and before its completion) is not lost:
\* the client does not go back to waiting for another line, and the wait, when
\* it returns, returns Ok.
C18_RefreshKeepsPush ==
    LET pushed == \E i \in 1..Len(rx) :
                      rx[i].ch.form = "untagged" /\ rx[i].at = "term_refresh"
        accepted == \A k \in 1..Len(rx) :
                        rx[k].ch.form = "tagged" => rx[k].ch.st = "OK"
    IN (srvok /\ ~wbroken /\ ~closed /\ pushed /\ accepted)
       => /\ pc # "wait"
          /\ pc = "ready" => result.kind = "Ok"

\* C19: during the lifetime of an IdleHandle the lines written are tagged IDLE
\* commands and untagged DONE lines, in alternation and starting with IDLE:
\* nothing is written between an IDLE and its DONE, and a DONE is followed by
\* nothing but the IDLE of a refresh.
C19_OnlyIdleAndDone ==
    InHandle =>
        \A k \in 1..Len(out) :
            /\ \/ out[k].kind = "cmd" /\ out[k].v = "IDLE" /\ out[k].tag \in 1..tag
               \/ out[k].kind = "done" /\ out[k].v = "DONE" /\ out[k].tag = 0
            /\ out[k].kind = "cmd" <=> (k = 1 \/ out[k - 1].kind = "done")

\* wait_timeout refreshed once, then a line arrived and the handle was dropped
C19_Witness ==
    /\ HandleGone /\ result.op = "wait_timeout" /\ result.kind = "Ok"
    /\ out = << Line("cmd", 2, "IDLE", TRUE), Line("done", 0, "DONE", TRUE),
                Line("cmd", 3, "IDLE", TRUE), Line("done", 0, "DONE", TRUE) >>

IsUntagged(ch) == ch.form = "untagged"

\* C20: a status-only command that returns Ok has sent every untagged line it
\* read before the completion to the unsolicited-response queue.
C20_StatusOnlyForwards ==
    [][(pc = "rr" /\ ret = "cmd" /\ andthen = "drop" /\ pc' = "ready"
        /\ result'.kind = "Ok")
       => unsolicited_responses' = unsolicited_responses \o SelectSeq(data, IsUntagged)]_vars

\* A response the server sends on its own account (mailbox size updates), and
\* the responses that answer the methods that do not select a mailbox
IsUnilateral(ch) == ch.form = "untagged" /\ RespOf(ch).t \in {"exists", "recent"}
AnswerType(f) ==
    CASE f = "fetches" -> "fetch"
      [] f = "names" -> "list"
      [] OTHER -> "capabilities"
IsOwn(ch) == ch.form = "untagged" /\ RespOf(ch).t = AnswerType(andthen)

\* C21: fetch, store, list, lsub and capabilities, on a response that holds
\* lines answering the command and lines the server sent on its own account
\* (`* 5 EXISTS`), completed by the tagged OK, return Ok with one item per
\* answering line and send the other lines to the unsolicited-response queue.
C21_UnrelatedForwarded ==
    [][(/\ pc = "rr" /\ ret = "cmd" /\ andthen \in {"fetches", "names", "capabilities"}
        /\ pc' = "ready" /\ Delivered /\ Last(rx').ch = Tagged(tag, "OK", "t")
        /\ \A i \in 1..Len(data) : IsOwn(data[i]) \/ IsUnilateral(data[i])
        /\ SelectSeq(data, IsOwn) # <<>> /\ SelectSeq(data, IsUnilateral) # <<>>)
       => /\ result'.kind = "Ok"
          /\ andthen # "capabilities" =>
                Len(result'.val.items) = Len(SelectSeq(data, IsOwn))
          /\ unsolicited_responses' =
                unsolicited_responses \o SelectSeq(data, IsUnilateral)]_vars

\* A line the server pushed while the session was idling: read by wait_inner,
\* or by terminate while it awaits the completion of the IDLE
IsIdlePush(e) ==
    e.ch.form = "untagged" /\ e.at \in {"wait", "term_refresh", "term_drop"}

\* C22: when a wait has returned Ok and its handle is gone, the lines the server
\* pushed while the session was idling are in the unsolicited-response queue,
\* in the order of their arrival.
C22_IdlePushQueued ==
    (HandleGone /\ result.op \in {"wait", "wait_timeout"} /\ result.kind = "Ok"
     /\ srvok /\ ~wbroken)
    => unsolicited_responses = Chunks(SelectSeq(rx, IsIdlePush))

Greeted == Delivered /\ Last(rx').at = "greet"
FirstAfterGreeting == result.op = "connect" /\ result.kind = "Ok" /\ sent' # sent

\* C24 as stated: connect reads one line before any command and takes no tag,
\* and it succeeds exactly when that line is a well-formed greeting.
C24_GreetingChecked ==
    [][/\ Greeted =>
            /\ Len(rx') = 1 /\ sent' = <<>> /\ out' = <<>> /\ tag' = INITIAL_TAG
            /\ result'.kind = "Ok" <=> Last(rx').ch.form = "untagged"
       /\ FirstAfterGreeting => sent' = << INITIAL_TAG + 1 >>]_vars

\* C24: connect reads one line before any command and takes no tag, so that
\* the first command after it is a1; it fails exactly when no line can be read
\* (end of stream, read error), and then the Client is not returned; whatever
\* line is read, well-formed or not, is accepted as the greeting.
C24_GreetingRead ==
    [][/\ Greeted =>
            /\ Len(rx') = 1 /\ sent' = <<>> /\ out' = <<>> /\ tag' = INITIAL_TAG
            /\ result'.kind = "Ok" <=> ~IsEvent(Last(rx').ch)
            /\ result'.kind = "Ok" => mode' = "client"
            /\ Last(rx').ch.form = "eof" => result'.kind = "ConnectionLost"
            /\ result'.kind # "Ok" => mode' = "gone"
       /\ FirstAfterGreeting => sent' = << INITIAL_TAG + 1 >>]_vars

\* A malformed line was taken as the greeting, and the first command is a1
C24_Witness ==
    /\ result.op = "connect" /\ result.kind = "Ok" /\ mode = "client"
    /\ Len(rx) = 1 /\ rx[1].ch = Junk /\ rx[1].at = "greet" /\ tag = INITIAL_TAG

\* C25: the first command written on the Client that secure returned carries
\* a tag greater than the tag of the STARTTLS command, the last one written
\* before it on the same transport.
C25_TagsGrowAcrossStartTls ==
    [][(result.op = "secure" /\ result.kind = "Ok" /\ Len(sent') = Len(sent) + 1)
         => Last(sent') > Last(sent)]_vars

RECURSIVE Escaped(_)
\* Every backslash doubled and every double quote preceded by one backslash
Escaped(x) ==
    IF x = <<>> THEN <<>>
    ELSE (IF Head(x) \in {BSc, DQc} THEN <<BSc, Head(x)>> ELSE <<Head(x)>>) \o Escaped(Tail(x))

RECURSIVE Unescaped(_)
\* The two escapes undone, reading from the left
Unescaped(x) ==
    IF x = <<>> THEN <<>>
    ELSE IF Head(x) = BSc /\ Len(x) >= 2 THEN <<x[2]>> \o Unescaped(SubSeq(x, 3, Len(x)))
    ELSE <<Head(x)>> \o Unescaped(Tail(x))

\* The outer quotes removed, then the escapes undone
Unquote(q) == Unescaped(SubSeq(q, 2, Len(q) - 1))

\* C26: quote!(x) is x between double quotes with every backslash doubled and
\* every double quote preceded by one backslash, and removing the outer quotes
\* and undoing the escapes gives x back.
C26_QuoteReversible ==
    result.op = "quote" =>
        /\ call.line = <<DQc>> \o Escaped(call.a1) \o <<DQc>>
        /\ Unquote(call.line) = call.a1

\* A string that holds a double quote and a backslash, quoted
C26_Witness ==
    /\ result.op = "quote" /\ call.a1 = <<DQc, BSc, "a">>
    /\ call.line = <<DQc, BSc, DQc, BSc, BSc, "a", DQc>>

\* The untagged responses of a SELECT, and the Mailbox they describe
SelectTypes == { "flags", "pflags", "exists", "recent", "unseen", "uidvalidity", "uidnext" }
MailboxOf(rs) ==
    [flags |-> ExtendOf(rs, "flags"),
     exists |-> LastNum(rs, "exists", 0),
     recent |-> LastNum(rs, "recent", 0),
     unseen |-> LastSome(rs, "unseen"),
     permanent_flags |-> ExtendOf(rs, "pflags"),
     uid_next |-> LastSome(rs, "uidnext"),
     uid_validity |-> LastSome(rs, "uidvalidity")]

\* C27: a select or examine answered by FLAGS, PERMANENTFLAGS, EXISTS, RECENT,
\* UNSEEN, UIDVALIDITY and UIDNEXT lines and a tagged OK returns the Mailbox
\* whose fields are the values of these lines, having written one command line.
C27_SelectMailbox ==
    [][(/\ pc = "rr" /\ ret = "cmd" /\ andthen = "mailbox" /\ pc' = "ready"
        /\ Len(out) = 1 /\ out[1].v \in {"SELECT", "EXAMINE"}
        /\ Delivered /\ Last(rx').ch = Tagged(tag, "OK", "t")
        /\ data # <<>> /\ \A i \in 1..Len(data) : RespOf(data[i]).t \in SelectTypes)
       => /\ result'.kind = "Ok"
          /\ result'.val.mb = MailboxOf(RespSeq(data))
          /\ out' = << Line("cmd", tag, out[1].v, TRUE) >>]_vars

FetchVerbs == { "FETCH", "UID FETCH", "STORE", "UID STORE" }
IsFetchLine(ch) == ch.form = "untagged" /\ RespOf(ch).t = "fetch"

\* C28: a fetch or store answered by k FETCH lines (k = 0 included) and a
\* tagged OK returns k records, the i-th holding the message number, the flags
\* and the UID of the i-th line.
C28_FetchRecords ==
    [][(/\ pc = "rr" /\ ret = "cmd" /\ andthen = "fetches" /\ pc' = "ready"
        /\ Len(out) = 1 /\ out[1].v \in FetchVerbs
        /\ Delivered /\ Last(rx').ch = Tagged(tag, "OK", "t")
        /\ \A i \in 1..Len(data) : IsFetchLine(data[i]))
       => /\ result'.kind = "Ok"
          /\ result'.val.items =
                [i \in 1..Len(data) |->
                    [message |-> RespOf(data[i]).num, flags |-> RespOf(data[i]).flags,
                     uid |-> RespOf(data[i]).uid]]]_vars

\* The line just read by read_response_onto, at the start of a response, is a
\* tagged completion whose tag is not the tag in flight
ForeignCompletion ==
    /\ pc = "rr" /\ cfrom = 0 /\ Delivered
    /\ Last(rx').ch.form = "tagged" /\ Last(rx').ch.tag # tag

\* C29: a completion that carries another tag does not end the read: the call
\* neither returns nor aborts on it, and goes on to the next readline.
C29_ForeignTagSkipped ==
    [][ForeignCompletion => pc' = "rr"]_vars

\* The line just read by read_response_onto, at the start of a response, is
\* not a response at all, or is the completion of the command in flight with a
\* status other than OK, NO and BAD
EndsInvalid ==
    /\ pc = "rr" /\ ret = "cmd" /\ cfrom = 0 /\ Delivered
    /\ \/ Last(rx').ch.form = "junk"
       \/ /\ Last(rx').ch.form = "tagged" /\ Last(rx').ch.tag = tag
          /\ Last(rx').ch.st \notin {"OK", "NO", "BAD"}

\* C30: such a line ends the command at once with Parse(Invalid) holding
\* everything read for the command, the line itself included; the command does
\* not return Ok and does not read on.
C30_InvalidCarriesData ==
    [][EndsInvalid =>
         /\ pc' = "ready" /\ mode' = mode
         /\ result'.kind = "Parse" /\ result'.text = "Invalid"
         /\ result'.data = Append(data, Last(rx').ch)
         /\ result'.data = Chunks(rx')]_vars

\* A tagged BYE after an untagged line
C30_Witness ==
    /\ pc = "ready" /\ result.kind = "Parse" /\ result.text = "Invalid"
    /\ result.data = << Untagged("u1"), Tagged(tag, "BYE", "t") >>

\* C31: what wait_inner returned is held while the handle is dropped (Ok after
\* a line, the read error otherwise); a DONE that cannot be written, and a
\* read error or a NO or BAD completion in answer to DONE, end the drop, and
\* the call returns what it held to a Session that is usable again.
C31_DropSwallows ==
    [][LET l == Last(rx').ch IN
       /\ (pc = "wait" /\ Delivered /\ ~IsTimeout(l) /\ pc' = "rr" /\ ret' = "term_drop")
            => pend' = (IF IsEvent(l) THEN ReadError(St, l) ELSE Res(op, "Ok", "", <<>>, ""))
       /\ (pc = "wait" /\ Delivered /\ ~IsTimeout(l) /\ pc' = "ready")
            => /\ result' = (IF IsEvent(l) THEN ReadError(St, l) ELSE Res(op, "Ok", "", <<>>, ""))
               /\ mode' = "session"
       /\ (pc = "ready" /\ mode = "idling" /\ pc' = "ready" /\ Len(out') > Len(out))
            => result'.text # "write" /\ mode' = "session"
       /\ (pc = "rr" /\ ret = "term_drop" /\ Delivered
           /\ (IsEvent(l) \/ (l.form = "tagged" /\ l.tag = tag)))
            => pc' = "ready" /\ result' = pend /\ mode' = "session"]_vars

\* wait returned Ok although the answer to the DONE of the drop was NO
C31_Witness ==
    /\ pc = "ready" /\ mode = "session" /\ result.op = "wait" /\ result.kind = "Ok"
    /\ Len(rx) >= 2 /\ Last(rx).at = "term_drop"
    /\ Last(rx).ch.form = "tagged" /\ Last(rx).ch.st = "NO"

\* The CRLF-terminated lines that the bytes of one command make on the wire:
\* one for the CRLF that write_line appends, and one for each CR LF inside
WireLines(l) == 1 + Cardinality({ i \in 1..(Len(l) - 1) : l[i] = CRc /\ l[i + 1] = LFc })
Holds(l, q) == \E i \in 1..(Len(l) - Len(q) + 1) : SubSeq(l, i, i + Len(q) - 1) = q

\* C32: rename, subscribe, unsubscribe, list and lsub called with a name that
\* contains CR or LF do not return Validate: the command is written with the
\* name quoted and otherwise as given, so that a name holding CR LF makes more
\* than one line under the one tag.
C32_QuotedNotValidated ==
    LET bad == {call.a1, call.a2} \cap { n \in QuotedNames : BadName(n) }
    IN (call.verb \in QuotedOnly /\ bad # {}) =>
         /\ result.kind # "Validate"
         /\ Len(out) = 1 /\ out[1].kind = "cmd" /\ out[1].tag = tag
         /\ \A n \in bad : Holds(call.line, Quote(n)) /\ Holds(call.line, n)
         /\ <<CRc, LFc>> \in bad => WireLines(call.line) > 1

\* subscribe with a name that is CR LF: two lines under one tag
C32_Witness ==
    /\ call.verb = "SUBSCRIBE" /\ call.a1 = <<CRc, LFc>> /\ pc = "rr"
    /\ call.line = <<"SUBSCRIBE", " ", DQc, CRc, LFc, DQc>> /\ WireLines(call.line) = 2

\* A read made by the init of idle() once its first line was not a continuation
InitResponseRead ==
    /\ op = "idle" /\ Delivered /\ ~IsEvent(Last(rx').ch)
    /\ \/ pc = "idleinit" /\ ~StartsWithPlus(Last(rx').ch)
       \/ pc = "rr" /\ ret = "init_new" /\ cfrom = 0

C34_DoneOnlyWhenIdling ==
    InHandle =>
        \A j \in 1..Len(out) :
            (out[j].kind = "done" /\ out[j].ok) =>
                \E i \in IdleIdx :
                    /\ j \in DonesOf(i) /\ Acked(i)
                    /\ \A k \in DonesOf(i) : k >= j

\* C35: a call that returns Validate leaves the tag counter, the tags used
\* and the state of the connection as they were, having written and read
\* nothing; the next call that writes a command writes it with the tag that
\* follows the one in use before the rejected call.
C35_RejectedUntouched ==
    [][/\ (pc = "ready" /\ pc' = "ready" /\ result'.kind = "Validate")
          => /\ tag' = tag /\ sent' = sent /\ mode' = mode /\ wbroken' = wbroken
             /\ unsolicited_responses' = unsolicited_responses
             /\ out' = <<>> /\ rx' = <<>>
       /\ (pc = "ready" /\ result.kind = "Validate" /\ out' # <<>>)
          => /\ out'[1].kind = "cmd" /\ out'[1].tag = tag + 1
             /\ tag' = tag + 1 /\ sent' = Append(sent, tag + 1)]_vars

\* select with a name that holds LF, rejected after the login took tag 1
C35_Witness ==
    /\ pc = "ready" /\ mode = "session" /\ result.kind = "Validate" /\ result.op = "command"
    /\ call.verb = "SELECT" /\ BadName(call.a1) /\ tag = 1 /\ sent = <<1>>

\* C36: when append has returned the Append error, facing a conforming
\* server, every command written so far has had its completion read: nothing
\* of the APPEND exchange is left for the next command to read.
C36_AppendErrorSynchronised ==
    (srvok /\ pc = "ready" /\ result.op = "append" /\ result.kind = "Append")
    => answered = Len(sent)

\* C37: a command whose command line was written returns (or aborts the
\* program) once the transport delivers, outside a literal, a tagged line or
\* end-of-stream; a well-formed untagged line or continuation line read at the
\* start of a response never makes read_response return.
C37_CommandTerminates ==
    /\ [][(/\ pc = "rr" /\ cfrom = 0 /\ rx' # rx
            /\ Last(rx').ch.form \in {"untagged", "cont"} /\ Last(rx').ch.enc = "ok")
           => pc' = "rr"]_vars
    /\ [][(pc = "rr" /\ rx' # rx /\ Final(Last(rx').ch)) => pc' \in {"ready", "crashed"}]_vars
    /\ (pc = "rr") ~> (pc \in {"ready", "crashed"})

\* A command has returned on a tagged line that followed a continuation line
\* and more lines than the model keeps
C37_Witness ==
    /\ pc = "ready" /\ result.op = "command" /\ Len(rx) = MaxData
    /\ rx[1].ch.form = "cont" /\ Last(rx).ch.form = "tagged"
    /\ rx[1].at = "cmd" /\ tag = MaxTag

\* C38: when the first line read by authenticate or by idle() is the tagged
\* completion of the command, the call is over with that line: no other line
\* is read from the transport.
C38_ReturnsOnFirstLine ==
    [][(/\ \/ pc = "auth" /\ op = "authenticate"
           \/ pc = "idleinit" /\ op = "idle"
        /\ rx = <<>> /\ Delivered
        /\ rx'[1].ch.form = "tagged" /\ rx'[1].ch.tag = tag
        /\ rx'[1].ch.st \in {"OK", "NO", "BAD"})
       => pc' \in {"ready", "crashed"}]_vars

\* C39: no read timeout is set on the transport while the handle dropped by a
\* wait performs its DONE exchange, nor while the Session has the connection
\* back.
C39_TimeoutReset ==
    (ret = "term_drop" \/ mode = "session") => ~rtimeout

\* C40: whatever readline is given by the transport, it returns the result,
\* and leaves the buffer, that it returns and leaves with the debug flag off.
C40_DebugOnlyTraces ==
    (result.op = "readline") =>
        LET before == SubSeq(data, 1, Len(data) - Len(rx[1].ch))
            off == Readline(FALSE, before, rx[1].at = "ioerr", rx[1].ch)
        IN /\ pc = "ready"
           /\ result = Res("readline", off.kind, "", <<off.read>>, "")
           /\ data = off.into

====
